---- MODULE Spec2Model ----
(***************************************************************************)
(* check-stock-price: the data-freshness cache and the investment-sizing   *)
(* decision of RoboInvestor (src/check_stock_price/main.py).               *)
(*                                                                         *)
(* One run of the tool is one call of check_stock_prices: for every ticker *)
(* it calls load_or_request_data (file exists? / file age / API request /  *)
(* open(..., 'w') + json.dump / json.load) and then extracts the two       *)
(* latest closes and decides BUY or HOLD.  The payload files data/<t>.json *)
(* are shared by all runs of the tool; nothing in the code locks them.     *)
(*                                                                         *)
(* Units.  Time is counted in ticks, TicksPerMinute ticks to the minute.   *)
(* Balances and prices are whole numbers of one currency unit.  Python     *)
(* floats are modelled by exact integers and rationals, exp() by a         *)
(* fixed-point series.  Timestamp keys and closing prices are strings of   *)
(* decimal digits, modelled as sequences of digits 0..9.                   *)
(***************************************************************************)
EXTENDS Integers, Sequences, FiniteSets

(***************************************************************************)
(* Bounds of the model.                                                    *)
(***************************************************************************)
\* resolution of the clock: ticks per minute
TicksPerMinute == 2
\* how many ticks the clock may advance during a behaviour
MaxTicks == 2
\* how many times the tool is started during a behaviour
MaxLaunches == 2
\* terms of the series that approximates exp()
ExpTerms == 8

(***************************************************************************)
(* Program constants.                                                      *)
(***************************************************************************)
\* pendulum's Interval.minutes is the minutes COMPONENT of the interval
MinutesPerHour == 60

Minutes(m) == m * TicksPerMinute

\* self.tickers: the tickers in the order the dict iterates them
Tickers == <<"AAA", "BBB">>
NumTickers == Len(Tickers)
TickerSet == {Tickers[i] : i \in 1..NumTickers}

\* concurrent or successive invocations of the tool
Runs == {"r1", "r2"}

(***************************************************************************)
(* Strings of digits: comparison and conversion.                           *)
(***************************************************************************)
\* Python's str < str: lexicographic, a proper prefix is smaller
RECURSIVE StrLess(_, _)
StrLess(a, b) ==
    IF a = <<>> THEN b # <<>>
    ELSE IF b = <<>> THEN FALSE
    ELSE IF a[1] < b[1] THEN TRUE
    ELSE IF a[1] > b[1] THEN FALSE
    ELSE StrLess(Tail(a), Tail(b))

\* float(s) of a string of digits: positional value
RECURSIVE PyFloat(_)
PyFloat(s) ==
    IF s = <<>> THEN 0
    ELSE 10 * PyFloat(SubSeq(s, 1, Len(s) - 1)) + s[Len(s)]

\* max(keys): the first item no later item exceeds
RECURSIVE PyMaxFrom(_, _)
PyMaxFrom(best, rest) ==
    IF rest = <<>> THEN best
    ELSE IF StrLess(best, rest[1]) THEN PyMaxFrom(rest[1], Tail(rest))
    ELSE PyMaxFrom(best, Tail(rest))

PyMax(keys) == PyMaxFrom(keys[1], Tail(keys))

\* sorted(keys): ascending, stable
RECURSIVE PyInsert(_, _)
PyInsert(sorted, k) ==
    IF sorted = <<>> THEN <<k>>
    ELSE IF StrLess(k, sorted[1]) THEN <<k>> \o sorted
    ELSE <<sorted[1]>> \o PyInsert(Tail(sorted), k)

RECURSIVE PySorted(_)
PySorted(keys) ==
    IF keys = <<>> THEN <<>>
    ELSE PyInsert(PySorted(SubSeq(keys, 1, Len(keys) - 1)), keys[Len(keys)])

(***************************************************************************)
(* JSON documents.  A document is a JSON object with one top-level member  *)
(* `top` whose value maps timestamp keys to {"4. close": close}, in the    *)
(* order of the text.  An API error document has another top-level member  *)
(* and no time series.                                                     *)
(***************************************************************************)
SeriesTop == "Time Series (5min)"
ErrorTop == "Error Message"

Doc(top, ts) == [top |-> top, ts |-> ts]
NoDoc == Doc("", <<>>)
ErrorDoc == Doc(ErrorTop, <<>>)

Entry(key, close) == [key |-> key, close |-> close]

Keys(ts) == [i \in 1..Len(ts) |-> ts[i].key]

\* latest_data[key]['4. close']
CloseAt(ts, key) == ts[CHOOSE i \in 1..Len(ts) : ts[i].key = key].close

\* The text json.dump writes, as the chunks that reach the file one after the
\* other: the opening of the object, one chunk per entry, the closing brace.
Tok(kind, name, key, close) ==
    [kind |-> kind, name |-> name, key |-> key, close |-> close]

JsonDump(doc) ==
    <<Tok("open", doc.top, <<>>, <<>>)>>
    \o [i \in 1..Len(doc.ts) |-> Tok("entry", "", doc.ts[i].key, doc.ts[i].close)]
    \o <<Tok("close", "", <<>>, <<>>)>>

\* json.load accepts a text only if the object is closed
JsonValid(text) ==
    /\ Len(text) >= 2
    /\ text[1].kind = "open"
    /\ text[Len(text)].kind = "close"
    /\ \A i \in 2..(Len(text) - 1) : text[i].kind = "entry"

JsonLoad(text) ==
    Doc(text[1].name,
        [i \in 1..(Len(text) - 2) |-> Entry(text[i + 1].key, text[i + 1].close)])

(***************************************************************************)
(* The documents of the model.                                             *)
(***************************************************************************)
\* timestamp keys: "10" < "105" < "9" as strings
KeySet == {<<1, 0>>, <<1, 0, 5>>, <<9>>}
\* longest time series of the model: every key once
MaxSeriesLen == Cardinality(KeySet)
\* closing prices: "0", "90", "95", "100"
CloseSet == {<<0>>, <<9, 0>>, <<9, 5>>, <<1, 0, 0>>}

Series(ts) == Doc(SeriesTop, ts)

\* every time series of at most MaxSeriesLen entries, in every order of its
\* keys (the keys of a JSON object read into a dict are distinct)
AllSeries ==
    { ts \in UNION {[1..n -> {Entry(k, c) : k \in KeySet, c \in CloseSet}] :
                    n \in 0..MaxSeriesLen} :
        \A i, j \in 1..Len(ts) : i # j => ts[i].key # ts[j].key }

AllDocs == {Series(ts) : ts \in AllSeries} \cup {ErrorDoc}

\* 100 then 90: a fall of 10 percent
DocBuy == Series(<<Entry(<<1, 0>>, <<1, 0, 0>>), Entry(<<9>>, <<9, 0>>)>>)
\* 100 then 95: a fall of 5 percent
DocHold == Series(<<Entry(<<9>>, <<9, 5>>), Entry(<<1, 0>>, <<1, 0, 0>>)>>)
\* a single observation
DocShort == Series(<<Entry(<<1, 0>>, <<1, 0, 0>>)>>)
\* what the payload files hold at the start: 95 then 95
StoredDoc == Series(<<Entry(<<1, 0>>, <<9, 5>>), Entry(<<9>>, <<9, 5>>)>>)

FeedDocs == {DocBuy, DocHold}

\* ages of a payload file at the start, in ticks (the clock then adds up to
\* MaxTicks ticks)
InitAges == {Minutes(1), Minutes(2), Minutes(60), Minutes(62)}

(***************************************************************************)
(* Parameters (dataclass Parameters) and the sizing function.              *)
(***************************************************************************)
\* investment_aggression is stored in tenths: 5 is 0.5
AggressionScale == 10
\* exp() is computed in thousandths
ExpScale == 1000
\* calculate_investment_dollars returns its amount multiplied by DollarScale
DollarScale == ExpScale * AggressionScale

\* sum of the first terms of the series of exp(n/d), n >= 0, d > 0, times ExpScale
RECURSIVE ExpSeries(_, _, _, _)
ExpSeries(n, d, k, term) ==
    IF k > ExpTerms \/ term = 0 THEN 0
    ELSE term + ExpSeries(n, d, k + 1, (term * n) \div (d * k))

\* math.exp(n/d) times ExpScale, d # 0: always positive
Exp(n, d) ==
    LET an == IF n < 0 THEN -n ELSE n
        ad == IF d < 0 THEN -d ELSE d
        e  == ExpSeries(an, ad, 1, ExpScale)
    IN  IF (n < 0) = (d < 0) \/ n = 0 THEN e
        ELSE (ExpScale * ExpScale) \div e

\* a percentage is the rational n/d with d > 0
Pct(n, d) == [n |-> n, d |-> d]

\* abs(percentage_change**2), rounded down to a whole number
PctSquared(pct) == (pct.n * pct.n) \div (pct.d * pct.d)

Result(raised, value) == [raised |-> raised, value |-> value]

\* calculate_investment_dollars: difference / 0.0 raises ZeroDivisionError
calculate_investment_dollars(p, account_balance, percentage_change) ==
    LET difference == account_balance - p.target_account_balance
    IN  IF p.target_account_balance = 0
        THEN Result("ZeroDivisionError", 0)
        ELSE Result("",
                    difference
                    * Exp(difference, p.target_account_balance)
                    * p.investment_aggression
                    * PctSquared(percentage_change))

(***************************************************************************)
(* check_stock_prices, lines 134-144: the evaluation of one ticker.        *)
(***************************************************************************)
\* max(latest_data.keys())
LatestTimestamp(keys) == PyMax(keys)

\* (mutant) the key before the last in the order of the payload
PrevTimestampUnsorted(keys) == keys[Len(keys) - 1]

\* sorted(latest_data.keys())[-2]
PrevTimestamp(keys) == PySorted(keys)[Len(keys) - 1]

\* ((current_price - prev_close_price) / prev_close_price) * 100
PercentageChange(current_price, prev_close_price) ==
    Pct((current_price - prev_close_price) * 100, prev_close_price)

\* (mutant) percentage_change <= self.parameters.percentage_fall_threshold
AtOrBelowFallThreshold(percentage_change, percentage_fall_threshold) ==
    percentage_change.n <= percentage_fall_threshold * percentage_change.d

\* percentage_change < self.parameters.percentage_fall_threshold
BelowFallThreshold(percentage_change, percentage_fall_threshold) ==
    percentage_change.n < percentage_fall_threshold * percentage_change.d

\* The locals of the loop body after the evaluation of one ticker; `raised`
\* names the exception that ended it, `sized` tells whether
\* calculate_investment_dollars was called.
Locals(raised, cur, prev, pct, sized, dollars, shares, rec) ==
    [raised |-> raised, current_price |-> cur, prev_close_price |-> prev,
     percentage_change |-> pct, sized |-> sized, purchase_dollars |-> dollars,
     shares |-> shares, recommendation |-> rec]

NoPct == Pct(0, 1)
NoLocals == Locals("", 0, 0, NoPct, FALSE, 0, 0, "")

Evaluation(p, account_balance, data) ==
    IF data.top # SeriesTop
    THEN Locals("KeyError", 0, 0, NoPct, FALSE, 0, 0, "")
    ELSE
    LET latest_data == data.ts
        keys == Keys(latest_data)
    IN
    IF keys = <<>>
    THEN Locals("ValueError", 0, 0, NoPct, FALSE, 0, 0, "")
    ELSE
    LET latest_timestamp == LatestTimestamp(keys)
        current_price == PyFloat(CloseAt(latest_data, latest_timestamp))
    IN
    IF Len(keys) < 2
    THEN Locals("IndexError", current_price, 0, NoPct, FALSE, 0, 0, "")
    ELSE
    LET prev_close_price == PyFloat(CloseAt(latest_data, PrevTimestamp(keys)))
    IN
    IF prev_close_price = 0
    THEN Locals("ZeroDivisionError", current_price, prev_close_price, NoPct,
                FALSE, 0, 0, "")
    ELSE
    LET percentage_change == PercentageChange(current_price, prev_close_price)
    IN
    IF BelowFallThreshold(percentage_change, p.percentage_fall_threshold)
    THEN
        LET sizing == calculate_investment_dollars(p, account_balance,
                                                   percentage_change)
            purchase_dollars == sizing.value
        IN  IF sizing.raised # ""
            THEN Locals(sizing.raised, current_price, prev_close_price,
                        percentage_change, TRUE, 0, 0, "")
            ELSE IF current_price = 0
            THEN Locals("ZeroDivisionError", current_price, prev_close_price,
                        percentage_change, TRUE, purchase_dollars, 0, "")
            ELSE Locals("", current_price, prev_close_price, percentage_change,
                        TRUE, purchase_dollars,
                        purchase_dollars \div (current_price * DollarScale),
                        "BUY")
    ELSE Locals("", current_price, prev_close_price, percentage_change,
                FALSE, 0, 0, "HOLD")

(***************************************************************************)
(* load_or_request_data: the freshness test and the API request.           *)
(***************************************************************************)
\* pendulum.now().diff(modified_time).minutes: the whole minutes of the
\* interval, within the hour
TimeDiffMinutes(time_now, modified_time) ==
    LET interval == IF time_now >= modified_time
                    THEN time_now - modified_time
                    ELSE modified_time - time_now
    IN  (interval \div TicksPerMinute) % MinutesPerHour

\* (mutant) time_diff >= threshold_minutes
StaleAtThreshold(time_diff, threshold_minutes) == time_diff >= threshold_minutes

\* time_diff > threshold_minutes
Stale(time_diff, threshold_minutes) == time_diff > threshold_minutes

\* What the HTTP exchange of requests.get can end in: no response at all, or
\* a response with a status and a body that is a JSON document or is not.
Response(network, status, json, doc) ==
    [network |-> network, status |-> status, json |-> json, doc |-> doc]

Responses(docs) ==
    { Response("error", "", FALSE, NoDoc),
      Response("ok", "success", FALSE, NoDoc),
      Response("ok", "non_success", TRUE, ErrorDoc),
      Response("ok", "non_success", FALSE, NoDoc) }
    \cup { Response("ok", "success", TRUE, doc) : doc \in docs }

\* a fetch that failed in one of the ways the cache contract lists
FetchFailed(resp) ==
    resp.network = "error" \/ ~resp.json \/ resp.status = "non_success"

\* requests.get(...).json(): a connection error and a body that is no JSON
\* raise; the status of the response is not looked at
request_api_stock_data(resp) ==
    IF resp.network = "error" THEN Result("ConnectionError", NoDoc)
    ELSE IF ~resp.json THEN Result("JSONDecodeError", NoDoc)
    ELSE Result("", resp.doc)

(***************************************************************************)
(* The state.                                                              *)
(***************************************************************************)
VARIABLES
    params,           \* self.parameters
    account_balance,  \* self.account_balance
    feed,             \* ticker -> the documents the API may serve for it
    files,            \* ticker -> the payload file data/<ticker>.json
    now,              \* the clock, in ticks
    pc,               \* run -> where the run is
    idx,              \* run -> position of the loop in self.tickers
    data,             \* run -> the local `data` of load_or_request_data
    wpos,             \* run -> chunks written through the open file
    locals,           \* run -> the locals of the loop body
    table,            \* run -> table_data: one entry per evaluated ticker
    err,              \* run -> the exception that ended the run
    call,             \* run -> observation of its load_or_request_data call
    hist,             \* ticker -> the calls that returned, oldest first
    launches          \* how many times the tool was started

vars == <<params, account_balance, feed, files, now, pc, idx, data, wpos,
          locals, table, err, call, hist, launches>>

config == <<params, account_balance, launches>>
runvars == <<pc, idx, data, wpos, locals, table, err, call>>

File(exists, text, mtime) == [exists |-> exists, text |-> text, mtime |-> mtime]
Absent == File(FALSE, <<>>, 0)

\* Observation of one load_or_request_data call: `start` is the state of the
\* payload when the call looked at it (absent; fresh: age <= threshold;
\* stale: age > threshold, the age being now - mtime), `begin` the time of
\* that look, `window` the time from which the staleness window of the
\* payload this call has to return runs (its mtime when fresh, the time of
\* the call otherwise), `resp` the response to its API request, `reqs` and
\* `writes` the number of its API requests and of its openings of the file
\* for writing.
Call(start, begin, window, resp, reqs, writes) ==
    [start |-> start, begin |-> begin, window |-> window, resp |-> resp,
     reqs |-> reqs, writes |-> writes]
NoResponse == Response("", "", FALSE, NoDoc)
NoCall == Call("", 0, 0, NoResponse, 0, 0)

\* a call that returned `ret`
Returned(c, ret) ==
    [start |-> c.start, begin |-> c.begin, window |-> c.window,
     reqs |-> c.reqs, ret |-> ret]

Ticker(r) == Tickers[idx[r]]

Running(r) == pc[r] \in {"call", "request", "open", "dump", "load", "eval", "print"}

\* the process of run r is gone: an exception or a signal ended it
Ended(r, how, exception) ==
    /\ pc' = [pc EXCEPT ![r] = how]
    /\ err' = [err EXCEPT ![r] = exception]
    /\ data' = [data EXCEPT ![r] = NoDoc]
    /\ wpos' = [wpos EXCEPT ![r] = 0]
    /\ table' = [table EXCEPT ![r] = <<>>]

(***************************************************************************)
(* The steps of a run.                                                     *)
(***************************************************************************)
\* check(): the tool is started, or started again after its last run ended,
\* and rbi.check_stock_prices() starts its loop
Launch(r) ==
    /\ pc[r] \in {"idle", "done", "failed", "killed"}
    /\ launches < MaxLaunches
    /\ launches' = launches + 1
    /\ pc' = [pc EXCEPT ![r] = "call"]
    /\ idx' = [idx EXCEPT ![r] = 1]
    /\ locals' = [locals EXCEPT ![r] = NoLocals]
    /\ table' = [table EXCEPT ![r] = <<>>]
    /\ err' = [err EXCEPT ![r] = ""]
    /\ call' = [call EXCEPT ![r] = NoCall]
    /\ UNCHANGED <<params, account_balance, feed, files, now, data, wpos, hist>>

\* load_or_request_data, lines 88-98 and 102: file_path.exists(), and for a
\* file that exists its age against the threshold.  (A file is never removed,
\* so the two looks at the file are one step.)
CheckFile(r) ==
    LET t == Ticker(r)
        f == files[t]
        threshold_minutes == params.threshold_data_age_minutes
        time_diff == TimeDiffMinutes(now, f.mtime)
        age == now - f.mtime
    IN
    /\ pc[r] = "call"
    /\ IF ~f.exists
       THEN /\ pc' = [pc EXCEPT ![r] = "request"]
            /\ call' = [call EXCEPT ![r] = Call("absent", now, now, NoResponse, 0, 0)]
       ELSE /\ pc' = [pc EXCEPT ![r] =
                        IF Stale(time_diff, threshold_minutes)
                        THEN "request" ELSE "load"]
            /\ call' = [call EXCEPT ![r] =
                          IF age > Minutes(threshold_minutes)
                          THEN Call("stale", now, now, NoResponse, 0, 0)
                          ELSE Call("fresh", now, f.mtime, NoResponse, 0, 0)]
    /\ UNCHANGED <<config, feed, files, now, idx, data, wpos, locals, table,
                   err, hist>>

\* lines 92 and 100: data = self.request_api_stock_data(ticker)
Request(r) ==
    /\ pc[r] = "request"
    /\ \E resp \in Responses(feed[Ticker(r)]) :
         LET got == request_api_stock_data(resp)
             seen == [call[r] EXCEPT !.resp = resp, !.reqs = @ + 1]
         IN  /\ call' = [call EXCEPT ![r] = seen]
             /\ IF got.raised # ""
                THEN /\ Ended(r, "failed", got.raised)
                     /\ UNCHANGED <<idx, locals>>
                ELSE /\ data' = [data EXCEPT ![r] = got.value]
                     /\ pc' = [pc EXCEPT ![r] = "open"]
                     /\ UNCHANGED <<idx, wpos, locals, table, err>>
    /\ UNCHANGED <<config, feed, files, now, hist>>

\* save_stock_data_to_local, line 79: open(file_path, 'w') creates the file
\* or cuts it to length 0
OpenFile(r) ==
    /\ pc[r] = "open"
    /\ files' = [files EXCEPT ![Ticker(r)] = File(TRUE, <<>>, now)]
    /\ wpos' = [wpos EXCEPT ![r] = 0]
    /\ call' = [call EXCEPT ![r].writes = @ + 1]
    /\ pc' = [pc EXCEPT ![r] = "dump"]
    /\ UNCHANGED <<config, feed, now, idx, data, locals, table, err, hist>>

\* the text of a file after `chunk` is written at offset `at` (in chunks):
\* what lies between the end of the file and the offset is a hole
WriteAt(text, at, chunk) ==
    [i \in 1..(IF Len(text) > at THEN Len(text) ELSE at + 1) |->
        IF i = at + 1 THEN chunk
        ELSE IF i <= Len(text) THEN text[i]
        ELSE Tok("hole", "", <<>>, <<>>)]

\* the call of load_or_request_data returns `ret` (line 105)
Return(r, ret) ==
    hist' = [hist EXCEPT ![Ticker(r)] = Append(@, Returned(call[r], ret))]

\* save_stock_data_to_local, line 80: json.dump(data, f) writes the next
\* chunk of the text; after the last one the file is closed and
\* load_or_request_data returns data
Dump(r) ==
    LET t == Ticker(r)
        text == JsonDump(data[r])
        last == wpos[r] + 1 = Len(text)
    IN
    /\ pc[r] = "dump"
    /\ files' = [files EXCEPT ![t] =
                   File(TRUE, WriteAt(files[t].text, wpos[r], text[wpos[r] + 1]), now)]
    /\ wpos' = [wpos EXCEPT ![r] = IF last THEN 0 ELSE @ + 1]
    /\ pc' = [pc EXCEPT ![r] = IF last THEN "eval" ELSE "dump"]
    /\ IF last THEN Return(r, data[r]) ELSE UNCHANGED hist
    /\ UNCHANGED <<config, feed, now, idx, data, locals, table, err, call>>

\* load_stock_data_from_local, lines 82-85 (line 104): json.load of the file
\* as it is now; a text that is no JSON document raises JSONDecodeError
LoadFile(r) ==
    LET text == files[Ticker(r)].text
    IN
    /\ pc[r] = "load"
    /\ IF JsonValid(text)
       THEN /\ data' = [data EXCEPT ![r] = JsonLoad(text)]
            /\ pc' = [pc EXCEPT ![r] = "eval"]
            /\ Return(r, JsonLoad(text))
            /\ UNCHANGED <<idx, wpos, locals, table, err>>
       ELSE /\ Ended(r, "failed", "JSONDecodeError")
            /\ UNCHANGED <<idx, locals, hist>>
    /\ UNCHANGED <<config, feed, files, now, call>>

\* check_stock_prices, lines 134-155: the evaluation of the ticker and its
\* entry in table_data; an exception ends check_stock_prices and the run
Evaluate(r) ==
    LET e == Evaluation(params, account_balance, data[r])
    IN
    /\ pc[r] = "eval"
    /\ locals' = [locals EXCEPT ![r] = e]
    /\ IF e.raised # ""
       THEN /\ Ended(r, "failed", e.raised)
            /\ UNCHANGED idx
       ELSE /\ table' = [table EXCEPT ![r] =
                           Append(@, [ticker |-> Ticker(r),
                                      recommendation |-> e.recommendation])]
            /\ IF idx[r] = NumTickers
               THEN /\ pc' = [pc EXCEPT ![r] = "print"]
                    /\ UNCHANGED idx
               ELSE /\ pc' = [pc EXCEPT ![r] = "call"]
                    /\ idx' = [idx EXCEPT ![r] = @ + 1]
            /\ UNCHANGED <<data, wpos, err>>
    /\ UNCHANGED <<config, feed, files, now, call, hist>>

\* line 157: print(tabulate(table_data)); the run is over
PrintTable(r) ==
    /\ pc[r] = "print"
    /\ pc' = [pc EXCEPT ![r] = "done"]
    /\ data' = [data EXCEPT ![r] = NoDoc]
    /\ UNCHANGED <<config, feed, files, now, idx, wpos, locals, table, err,
                   call, hist>>

(***************************************************************************)
(* The environment.                                                        *)
(***************************************************************************)
\* the process of a run is killed (a signal, a power cut)
Interrupt(r) ==
    /\ Running(r)
    /\ Ended(r, "killed", "")
    /\ UNCHANGED <<config, feed, files, now, idx, locals, call, hist>>

\* time passes
Tick ==
    /\ now < MaxTicks
    /\ now' = now + 1
    /\ UNCHANGED <<config, feed, files, runvars, hist>>

(***************************************************************************)
(* Specifications.                                                         *)
(***************************************************************************)
Parameters(target, age_minutes, aggression, fall) ==
    [target_account_balance |-> target,
     threshold_data_age_minutes |-> age_minutes,
     investment_aggression |-> aggression,
     percentage_fall_threshold |-> fall]

\* the runs in `scheduled` are still to be launched, the others never are
InitRuns(scheduled) ==
    /\ pc = [r \in Runs |-> IF r \in scheduled THEN "idle" ELSE "off"]
    /\ idx = [r \in Runs |-> 1]
    /\ data = [r \in Runs |-> NoDoc]
    /\ wpos = [r \in Runs |-> 0]
    /\ locals = [r \in Runs |-> NoLocals]
    /\ table = [r \in Runs |-> <<>>]
    /\ err = [r \in Runs |-> ""]
    /\ call = [r \in Runs |-> NoCall]
    /\ hist = [t \in TickerSet |-> <<>>]

Step(r) ==
    \/ Launch(r)
    \/ CheckFile(r)
    \/ Request(r)
    \/ OpenFile(r)
    \/ Dump(r)
    \/ LoadFile(r)
    \/ Evaluate(r)
    \/ PrintTable(r)

\* The cache under successive runs of the tool: the payload file of the
\* first ticker is absent or has any of the ages of InitAges, the others are
\* absent or just written.
Init ==
    /\ \E age_minutes \in {1, 2} :
         params = Parameters(5, age_minutes, 5, -5)
    /\ account_balance = 10
    /\ feed = [t \in TickerSet |-> FeedDocs]
    /\ now = 0
    /\ files \in [TickerSet -> {Absent, File(TRUE, JsonDump(StoredDoc), 0)}
                               \cup {File(TRUE, JsonDump(StoredDoc), -a) : a \in InitAges}]
    /\ \A i \in 2..NumTickers : files[Tickers[i]].mtime = 0
    /\ InitRuns({"r1"})
    /\ launches = 0

Next ==
    \/ \E r \in Runs : Step(r)
    \/ \E r \in Runs : Interrupt(r)
    \/ Tick

Spec == Init /\ [][Next]_vars

\* One run of check_stock_prices: the account balance is 10 and the target
\* is 0, below, equal or above it; one ticker is served any document of the
\* bounds; the files are all absent or all just written.
InitBatch ==
    /\ \E target \in {0, 5, 10, 20}, fall \in {-5, -10} :
         params = Parameters(target, 1, 5, fall)
    /\ account_balance = 10
    /\ \E t \in TickerSet, served \in [TickerSet -> AllDocs] :
         /\ \A u \in TickerSet \ {t} : served[u] \in {DocBuy, DocShort}
         /\ feed = [u \in TickerSet |-> {served[u]}]
         /\ files \in {[u \in TickerSet |-> Absent],
                       [u \in TickerSet |-> File(TRUE, JsonDump(served[u]), 0)]}
    /\ now = 0
    /\ InitRuns({"r1"})
    /\ launches = MaxLaunches - 1

NextBatch == \E r \in Runs : Step(r)

SpecBatch == InitBatch /\ [][NextBatch]_vars

\* Two runs of the tool at the same time on the same files, all absent at
\* the start.
InitConc ==
    /\ params = Parameters(5, 1, 5, -5)
    /\ account_balance = 10
    /\ feed = [t \in TickerSet |-> {DocBuy}]
    /\ now = 0
    /\ files = [t \in TickerSet |-> Absent]
    /\ InitRuns(Runs)
    /\ launches = 0

NextConc ==
    \/ \E r \in Runs : Step(r)
    \/ \E r \in Runs : Interrupt(r)

SpecConc == InitConc /\ [][NextConc]_vars

(***************************************************************************)
(* Properties.                                                             *)
(***************************************************************************)
Evaluated(r) == locals[r].recommendation # ""

\* C1: no negative buys.  Whenever the account balance is at most the target
\* balance, and more generally whenever calculate_investment_dollars returned
\* an amount <= 0, the recommendation of the evaluated ticker is HOLD, never
\* BUY, also when the percentage change is below the fall threshold.
C1_NoNegativeBuys ==
    \A r \in Runs :
        Evaluated(r) =>
            /\ account_balance <= params.target_account_balance
                   => locals[r].recommendation = "HOLD"
            /\ (locals[r].sized /\ locals[r].purchase_dollars <= 0)
                   => locals[r].recommendation = "HOLD"

\* C2: partial failure.  Unless the target balance is 0, a run that ended,
\* with or without an exception, evaluated every ticker: its table has one
\* entry per configured ticker.
C2_BatchCompletes ==
    \A r \in Runs :
        (params.target_account_balance # 0 /\ pc[r] \in {"done", "failed"})
            => Len(table[r]) = NumTickers

\* C3: staleness rule.  For a payload file that exists, load_or_request_data
\* goes on to request the API if and only if the age of the file (now minus
\* its modification time) is above the threshold; at an age up to the
\* threshold it goes on to load the stored payload.
C3_StalenessRule ==
    \A r \in Runs :
        /\ (pc[r] = "request" /\ call[r].start # "absent") => call[r].start = "stale"
        /\ pc[r] = "load" => call[r].start = "fresh"

\* C4: fail-fast refresh.  Once the fetch of a load_or_request_data call has
\* failed (no response, a body that is no JSON, a non-success status), the
\* failure has ended the run: the call neither writes the response to the
\* payload file nor returns it.
C4_FailFast ==
    \A r \in Runs :
        (call[r].reqs > 0 /\ FetchFailed(call[r].resp)) => pc[r] = "failed"

\* C5: fatal configuration.  With a target balance of 0 no run ever looks at
\* a payload file, requests the API or writes a file, and no run completes.
C5_FatalConfiguration ==
    params.target_account_balance = 0 =>
        \A r \in Runs : call[r] = NoCall /\ pc[r] # "done"

\* C6: idempotent fresh read.  Of two consecutive calls of
\* load_or_request_data for one ticker that returned, the second made within
\* the staleness window of the first, both return the same payload and
\* together they request the API at most once, exactly once when the first
\* found the payload absent or stale.
C6_IdempotentFreshRead ==
    \A t \in TickerSet : \A i \in 1..(Len(hist[t]) - 1) :
        LET first == hist[t][i]
            second == hist[t][i + 1]
        IN  second.begin - first.window <= Minutes(params.threshold_data_age_minutes)
            => /\ first.ret = second.ret
               /\ first.reqs + second.reqs <= 1
               /\ first.start \in {"absent", "stale"}
                      => first.reqs + second.reqs = 1

\* C7: no partial-write visibility.  Whenever a run is about to read a
\* payload file with load_stock_data_from_local, the file holds a complete
\* JSON document.
C7_NoPartialRead ==
    \A r \in Runs : pc[r] = "load" => JsonValid(files[Ticker(r)].text)

\* the lexically greatest key of a non-empty set of keys
Greatest(S) == CHOOSE k \in S : \A j \in S : j = k \/ StrLess(j, k)

\* C8: extraction correctness.  After the evaluation of a time series with at
\* least two keys, current_price is the close at the lexically greatest key
\* and prev_close_price the close at the greatest of the other keys, whatever
\* the order of the keys in the payload.
C8_Extraction ==
    \A r \in Runs :
        (Evaluated(r) /\ pc[r] \in {"call", "request", "load", "print"}) =>
            LET ts == data[r].ts
                K == {ts[i].key : i \in 1..Len(ts)}
                latest == Greatest(K)
                previous == Greatest(K \ {latest})
            IN  /\ Len(ts) >= 2
                /\ locals[r].current_price = PyFloat(CloseAt(ts, latest))
                /\ locals[r].prev_close_price = PyFloat(CloseAt(ts, previous))

\* a run evaluated a series of three keys whose greatest key comes first and
\* whose other keys are not in ascending order
C8_Witness ==
    \E r \in Runs :
        /\ Evaluated(r) /\ pc[r] \in {"call", "print"}
        /\ Len(data[r].ts) = 3
        /\ StrLess(data[r].ts[3].key, data[r].ts[2].key)
        /\ StrLess(data[r].ts[2].key, data[r].ts[1].key)
        /\ locals[r].current_price # locals[r].prev_close_price

\* C9: write discipline.  A call opens the payload file for writing at most
\* once; a file changes only in a write step of a call for its own ticker
\* that found the payload absent or stale (so a call that serves a fresh
\* payload leaves file and modification time unchanged, and no call changes
\* the file of another ticker); a file that exists is never removed.
C9_WriteDiscipline ==
    [][ /\ \A r \in Runs : call'[r].writes <= 1
        /\ \A t \in TickerSet :
             files'[t] # files[t] =>
                /\ files'[t].exists
                /\ \E r \in Runs :
                     /\ pc[r] \in {"open", "dump"}
                     /\ Ticker(r) = t
                     /\ call[r].start \in {"absent", "stale"} ]_vars

\* a ticker for which a call refreshed a stale payload and the next call
\* served the fresh one
C9_Witness ==
    \E t \in TickerSet :
        /\ Len(hist[t]) = 2
        /\ hist[t][1].start = "stale" /\ hist[t][1].reqs = 1
        /\ hist[t][2].start = "fresh" /\ hist[t][2].reqs = 0
        /\ hist[t][2].ret = hist[t][1].ret

\* C10: strict buy trigger.  percentage_change is (current - previous) /
\* previous * 100; the purchase is sized exactly when it is below the fall
\* threshold; at the threshold or above it the recommendation is HOLD and
\* calculate_investment_dollars is not called.
C10_StrictTrigger ==
    \A r \in Runs :
        locals[r].prev_close_price # 0 =>
            LET cur == locals[r].current_price
                prev == locals[r].prev_close_price
                below == (cur - prev) * 100
                           < params.percentage_fall_threshold * prev
            IN  /\ locals[r].percentage_change = Pct((cur - prev) * 100, prev)
                /\ ~below => (locals[r].recommendation = "HOLD" /\ ~locals[r].sized)
                /\ below => (locals[r].sized /\ locals[r].recommendation # "HOLD")

\* current 95, previous 100, threshold -5: HOLD
C10_Witness ==
    \E r \in Runs :
        /\ params.percentage_fall_threshold = -5
        /\ locals[r].current_price = 95
        /\ locals[r].prev_close_price = 100
        /\ locals[r].recommendation = "HOLD"
        /\ ~locals[r].sized

====
